---- MODULE Spec2Model ----
(***************************************************************************)
(* smtp_receiver: a debug SMTP sink.  The model covers                      *)
(*   - the file-format pre-processing done at startup (main),               *)
(*   - the transaction handler mailProcessing (file name resolution,        *)
(*     payload selection for the %h digest, logging, file write),           *)
(*   - the shutdown coordination between the main goroutine                 *)
(*     (ListenAndServe, isClosed test, srv.Shutdown) and the signal         *)
(*     goroutine (srv.Close, isClosed = true, ln.Close).                    *)
(* Strings are sequences of one-character strings.  A file name under       *)
(* resolution is a sequence of elements [c, o, k, d]: the character c, the  *)
(* index o of the template character it comes from, the token kind k that   *)
(* produced it ("" for a template character) and, for a digest, the bytes   *)
(* d the digest was computed over.                                          *)
(***************************************************************************)
EXTENDS Integers, Sequences, FiniteSets, TLC

VARIABLES
    fileFormat,        \* -fileformat, a sequence of characters
    logQuiet,          \* -quiet
    logFull,           \* -full
    debug,             \* smtpd.Debug
    needTimestamp,     \* bitmask: 1 nanosecond, 2 second
    needDataHash,
    needFullDataHash,
    proc,              \* "running", "exited", "panicked", "killed"
    crash,             \* the run-time panic that ended the process, or "none"
    mainPc,            \* position of the main goroutine
    sigPc,             \* position of the signal goroutine
    sigChan,           \* number of signals buffered in c (capacity 1)
    nSignals,          \* interrupts delivered to the process so far
    closeRuns,         \* how many times the close sequence was started
    isClosed,
    ln,                \* "nil", "open", "closed"
    inShutdown,        \* the engine's shutdown state, set by Close and Shutdown
    serveErr,          \* what ListenAndServe returned
    branch,            \* the branch main took after ListenAndServe returned
    sessions,          \* per connection slot: "none", "idle", "handling"
    inflight,          \* handlers that were running at an interrupt and still are
    hit,               \* an interrupt arrived while a handler was running
    shutdownLogged,    \* "server shut downed." was logged
    last               \* outcome of the last handler invocation

vars == <<fileFormat, logQuiet, logFull, debug, needTimestamp, needDataHash,
          needFullDataHash, proc, crash, mainPc, sigPc, sigChan, nSignals,
          closeRuns, isClosed, ln, inShutdown, serveErr, branch, sessions,
          inflight, hit, shutdownLogged, last>>

confVars == <<fileFormat, logQuiet, logFull, debug>>
needVars == <<needTimestamp, needDataHash, needFullDataHash>>
sigVars == <<sigPc, sigChan, nSignals, closeRuns, isClosed>>
engineVars == <<inShutdown, sessions, inflight, hit>>
mainVars == <<mainPc, serveErr, branch, shutdownLogged>>

\* ------------------------------------------------------------------ bounds
MaxLen == 5
MaxBody == 4
MaxConns == 2
MaxSignals == 2

TChars == {"%", "s", "N", "h", "H", "a"}
LF == "\n"
BChars == {LF, "x"}
Templates == UNION {[1..n -> TChars] : n \in 0..MaxLen}
Bodies == UNION {[1..n -> BChars] : n \in 0..MaxBody}
Timestamps == {0, 17}
Nanoseconds == {5, 123456789}

\* ------------------------------------------------------------ string helpers
\* strings.Index(s[i:], ch) / bytes.Index(s[i:], ch): the offset of the first ch
\* at or after the 0-based position i, relative to i, or -1.
Index(s, i, ch) ==
    LET hits == {k \in (i + 1)..Len(s) : s[k] = ch}
    IN IF hits = {} THEN -1
       ELSE (CHOOSE k \in hits : \A m \in hits : k <= m) - 1 - i

RECURSIVE Digits(_)
Digits(n) ==
    IF n < 10 THEN <<CHOOSE c \in {"0","1","2","3","4","5","6","7","8","9"} :
                       c = ToString(n)>>
    ELSE Digits(n \div 10) \o Digits(n % 10)

\* fmt.Sprintf("%d", timestamp)
FormatD(n) == Digits(n)

RECURSIVE Zeros(_)
Zeros(n) == IF n <= 0 THEN <<>> ELSE <<"0">> \o Zeros(n - 1)

\* fmt.Sprintf("%0.9d", nano): at least nine digits, zero padded
FormatNano(n) == Zeros(9 - Len(Digits(n))) \o Digits(n)

Elem(c, o, k, d) == [c |-> c, o |-> o, k |-> k, d |-> d]

\* the template as the initial file name: every character with its own index
Raw(f) == [i \in 1..Len(f) |-> Elem(f[i], i, "", <<>>)]

\* hex.EncodeToString(sha256.Sum256(payload)): one opaque element that stands
\* for the 64 hex digits and remembers the bytes hashed
HexDigest(payload, o, k) == <<Elem("#", o, k, payload)>>

\* ------------------------------------------------------- startup pre-processing
NoNeeds == [ts |-> 0, h |-> FALSE, H |-> FALSE, panic |-> FALSE]

\* needTimestamp | bit, for bit 1 or 2
BitOr(n, bit) == IF (n \div bit) % 2 = 1 THEN n ELSE n + bit

\* the switch on the character after a "%"
Mark(fl, ch) ==
    CASE ch = "h" -> [fl EXCEPT !.h = TRUE]
      [] ch = "H" -> [fl EXCEPT !.H = TRUE]
      [] ch = "s" -> [fl EXCEPT !.ts = BitOr(fl.ts, 2)]
      [] ch = "N" -> [fl EXCEPT !.ts = BitOr(fl.ts, 1)]
      [] OTHER -> fl

\* the loop "for i := 0; i < len(fileFormat);" with i and j 0-based as in the
\* code; reading fileFormat[j+1] at or past the end is an index-out-of-range panic
RECURSIVE ScanFrom(_, _, _)
ScanFrom(f, i, fl) ==
    IF ~(i < Len(f)) THEN fl
    ELSE LET j == Index(f, i, "%")
         IN IF j = -1 \/ j + 1 = Len(f) THEN fl
            ELSE LET jj == j + i
                 IN IF jj + 1 >= Len(f) THEN [fl EXCEPT !.panic = TRUE]
                    ELSE ScanFrom(f, jj + 2, Mark(fl, f[jj + 2]))

PreProcessFlags(f) == IF f # <<>> THEN ScanFrom(f, 0, NoNeeds) ELSE NoNeeds

\* ------------------------------------------------------------ the token regexes
\* length of the run of "%" starting at position p
RECURSIVE PercentRun(_, _)
PercentRun(str, p) ==
    IF p <= Len(str) /\ str[p].c = "%" THEN 1 + PercentRun(str, p + 1) ELSE 0

\* a pattern without the escape-aware prefix, plain "%X": it matches wherever
\* "%" is followed by X
MatchEndAnywhere(str, m, X) ==
    IF str[m].c = "%" /\ m + 1 <= Len(str) /\ str[m + 1].c = X THEN m + 2 ELSE 0

\* "(^|[^%](%%)*)%X" tried with its match starting at position m: the position
\* after the match, or 0 when there is no match starting at m.  "^" holds only at
\* the start of the text; after a non-"%" character the pairs "%%" are followed
\* by "%X", so the run of "%" after m is odd and X comes right after it.
MatchEnd(str, m, X) ==
    IF m = 1 /\ str[1].c = "%"
    THEN IF Len(str) >= 2 /\ str[2].c = X THEN 3 ELSE 0
    ELSE IF str[m].c = "%" THEN 0
    ELSE LET r == PercentRun(str, m + 1)
         IN IF r % 2 = 1 /\ m + r + 1 <= Len(str) /\ str[m + r + 1].c = X
            THEN m + r + 2 ELSE 0

\* the replacement "${1}" + value: group 1 kept, "%X" replaced by the value
Substitute(str, m, e, val) ==
    SubSeq(str, m, e - 3)
      \o [i \in 1..Len(val) |-> [val[i] EXCEPT !.o = str[e - 2].o]]

\* Regexp.ReplaceAllString: leftmost matches, left to right, not overlapping
RECURSIVE ReplaceFrom(_, _, _, _)
ReplaceFrom(str, i, X, val) ==
    IF i > Len(str) THEN <<>>
    ELSE LET e == MatchEnd(str, i, X)
         IN IF e # 0 THEN Substitute(str, i, e, val) \o ReplaceFrom(str, e, X, val)
            ELSE <<str[i]>> \o ReplaceFrom(str, i + 1, X, val)

\* the one element of a singleton; binding a value this way evaluates it once
Only(S) == CHOOSE x \in S : TRUE

ReplaceAllString(str, X, val) ==
    Only({ReplaceFrom(s, 1, X, v) : s \in {str}, v \in {val}})

\* percentRegex.ReplaceAllString(filename, "%"): every "%%", left to right
RECURSIVE Unescape(_, _)
Unescape(str, i) ==
    IF i > Len(str) THEN <<>>
    ELSE IF str[i].c = "%" /\ i + 1 <= Len(str) /\ str[i + 1].c = "%"
         THEN <<str[i]>> \o Unescape(str, i + 2)
         ELSE <<str[i]>> \o Unescape(str, i + 1)

\* ------------------------------------------------------------------ the digest
\* the loop without its "payloadstart++"
RECURSIVE PayloadStartNoSkip(_, _, _)
PayloadStartNoSkip(data, n, start) ==
    IF n = 0 THEN start
    ELSE IF start > Len(data) \/ start < 0 THEN -1
    ELSE PayloadStartNoSkip(data, n - 1, start + Index(data, start, LF))

\* the loop "for i := 0; i < 3; i++ { payloadstart += bytes.Index(...); payloadstart++ }"
RECURSIVE PayloadStart(_, _, _)
PayloadStart(data, n, start) ==
    IF n = 0 THEN start
    ELSE IF start > Len(data) THEN -1        \* data[payloadstart:] out of range
    ELSE PayloadStart(data, n - 1, start + Index(data, start, LF) + 1)

\* data[payloadstart:]; a slice start past the end panics
SliceFrom(data, start) == SubSeq(data, start + 1, Len(data))

\* -------------------------------------------------------------- mailProcessing
Chars(val, k) == [i \in 1..Len(val) |-> Elem(val[i], 0, k, <<>>)]

AfterTimestamp(fn, ts, nano) ==
    IF needTimestamp > 0
    THEN LET a == IF needTimestamp % 2 = 1
                  THEN ReplaceAllString(fn, "N", Chars(FormatNano(nano), "N"))
                  ELSE fn
         IN IF (needTimestamp \div 2) % 2 = 1
            THEN ReplaceAllString(a, "s", Chars(FormatD(ts), "s"))
            ELSE a
    ELSE fn

AfterDataHash(fn, data) ==
    IF needDataHash
    THEN ReplaceAllString(fn, "h",
             HexDigest(SliceFrom(data, PayloadStart(data, 3, 0)), 0, "h"))
    ELSE fn

AfterFullDataHash(fn, data) ==
    IF needFullDataHash
    THEN ReplaceAllString(fn, "H", HexDigest(data, 0, "H"))
    ELSE fn

ResolveFilename(data, ts, nano) ==
    LET fn == AfterFullDataHash(
                  AfterDataHash(AfterTimestamp(Raw(fileFormat), ts, nano), data), data)
    IN Only({IF f # <<>> THEN Unescape(f, 1) ELSE f : f \in {fn}})

\* a handler that hands the write error back to the engine
HandlerResultOfWrite(ferr) == ferr

\* "return" of the named result err, which nothing assigns
HandlerResult(ferr) == "nil"

\* the whole handler: the file name, the log lines, the write, the result
mailProcessing(data, ts, nano, writeOk) ==
    LET start == IF needDataHash THEN PayloadStart(data, 3, 0) ELSE 0
        ferr(filename) ==
            IF filename # <<>> /\ ~writeOk THEN "write error" ELSE "nil"
    IN IF start < 0 \/ start > Len(data)
       THEN [done |-> FALSE, panic |-> TRUE, filename |-> <<>>, data |-> data,
             payload |-> <<>>, logged |-> FALSE, logName |-> FALSE,
             logData |-> FALSE, writeTried |-> FALSE, written |-> FALSE,
             errLogged |-> FALSE, err |-> "none"]
       ELSE Only({
            [done |-> TRUE, panic |-> FALSE, filename |-> filename, data |-> data,
             payload |-> IF needDataHash THEN SliceFrom(data, start) ELSE <<>>,
             logged |-> (~logQuiet \/ debug),
             logName |-> ((~logQuiet \/ debug) /\ filename # <<>>),
             logData |-> ((~logQuiet \/ debug) /\ logFull),
             writeTried |-> (filename # <<>>),
             written |-> (filename # <<>> /\ writeOk),
             errLogged |-> (ferr(filename) # "nil"),
             err |-> HandlerResult(ferr(filename))]
            : filename \in {ResolveFilename(data, ts, nano)}})

NoResult == [done |-> FALSE, panic |-> FALSE, filename |-> <<>>, data |-> <<>>,
             payload |-> <<>>, logged |-> FALSE, logName |-> FALSE,
             logData |-> FALSE, writeTried |-> FALSE, written |-> FALSE,
             errLogged |-> FALSE, err |-> "none"]

\* ------------------------------------------------------------------- startup
Conns == 1..MaxConns

\* templates and bodies used while the server runs
ServeTemplates == {<<>>, <<"a", "%", "s">>, <<"%", "h", "%">>}
ServeBodies == {<<LF, LF, LF, "x">>}

InitProcess ==
    /\ needTimestamp = 0 /\ needDataHash = FALSE /\ needFullDataHash = FALSE
    /\ proc = "running" /\ crash = "none"
    /\ mainPc = "start" /\ sigPc = "unstarted"
    /\ sigChan = 0 /\ nSignals = 0 /\ closeRuns = 0
    /\ isClosed = FALSE /\ ln = "nil" /\ inShutdown = FALSE
    /\ serveErr = "none" /\ branch = "none"
    /\ sessions = [s \in Conns |-> "none"]
    /\ inflight = {} /\ hit = FALSE /\ shutdownLogged = FALSE
    /\ last = NoResult

Init ==
    /\ fileFormat \in ServeTemplates
    /\ logQuiet \in BOOLEAN /\ logFull \in BOOLEAN /\ debug \in BOOLEAN
    /\ InitProcess

\* main, "file Format pre processing"
PreProcess ==
    /\ proc = "running" /\ mainPc = "start"
    /\ LET fl == PreProcessFlags(fileFormat)
       IN IF fl.panic
          THEN /\ proc' = "panicked" /\ crash' = "index out of range"
               /\ UNCHANGED <<needVars, mainPc>>
          ELSE /\ needTimestamp' = fl.ts /\ needDataHash' = fl.h
               /\ needFullDataHash' = fl.H
               /\ mainPc' = "go"
               /\ UNCHANGED <<proc, crash>>
    /\ UNCHANGED <<confVars, sigVars, ln, engineVars, serveErr, branch,
                   shutdownLogged, last>>

\* main, "go func() {...}()"
StartSignalFlow ==
    /\ proc = "running" /\ mainPc = "go"
    /\ mainPc' = "listen" /\ sigPc' = "notify"
    /\ UNCHANGED <<confVars, needVars, proc, crash, sigChan, nSignals, closeRuns,
                   isClosed, ln, engineVars, serveErr, branch, shutdownLogged, last>>

\* ------------------------------------------------------------ the signal flow
\* "var c = make(chan os.Signal, 1); signal.Notify(c, os.Interrupt)"
SigNotify ==
    /\ proc = "running" /\ sigPc = "notify"
    /\ sigPc' = "wait"
    /\ UNCHANGED <<confVars, needVars, proc, crash, mainVars, sigChan, nSignals,
                   closeRuns, isClosed, ln, engineVars, last>>

\* an interrupt delivered to the process once Notify is in place: a send on c
\* that does not block, the signal being dropped when the buffer is full
Interrupt ==
    /\ proc = "running" /\ sigPc \notin {"unstarted", "notify"}
    /\ nSignals < MaxSignals
    /\ nSignals' = nSignals + 1
    /\ sigChan' = IF sigChan < 1 THEN sigChan + 1 ELSE sigChan
    /\ inflight' = inflight \cup {s \in Conns : sessions[s] = "handling"}
    /\ hit' = (hit \/ \E s \in Conns : sessions[s] = "handling")
    /\ UNCHANGED <<confVars, needVars, proc, crash, mainVars, sigPc, closeRuns,
                   isClosed, ln, inShutdown, sessions, last>>

\* "<-c" and the log line "Signal received: shutting down."
SigReceive ==
    /\ proc = "running" /\ sigPc = "wait" /\ sigChan > 0
    /\ sigChan' = sigChan - 1 /\ sigPc' = "close"
    /\ UNCHANGED <<confVars, needVars, proc, crash, mainVars, nSignals, closeRuns,
                   isClosed, ln, engineVars, last>>

\* the engine's Close: from now on the engine is shutting down
srvClose == inShutdown' = TRUE

\* "err := srv.Close()"
SigEngineClose ==
    /\ proc = "running" /\ sigPc = "close"
    /\ srvClose
    /\ closeRuns' = closeRuns + 1 /\ sigPc' = "flag"
    /\ UNCHANGED <<confVars, needVars, proc, crash, mainVars, sigChan, nSignals,
                   isClosed, ln, sessions, inflight, hit, last>>

\* "isClosed = true"
SigSetFlag ==
    /\ proc = "running" /\ sigPc = "flag"
    /\ isClosed' = TRUE /\ sigPc' = "lnclose"
    /\ UNCHANGED <<confVars, needVars, proc, crash, mainVars, sigChan, nSignals,
                   closeRuns, ln, engineVars, last>>

\* a close sequence that leaves the listener open
SigListenerLeftOpen ==
    /\ proc = "running" /\ sigPc = "lnclose"
    /\ sigPc' = "logclosed"
    /\ UNCHANGED <<confVars, needVars, proc, crash, mainVars, sigChan, nSignals,
                   closeRuns, isClosed, ln, engineVars, last>>

\* "ln.Close()": a method call on the nil interface value panics
SigListenerClose ==
    /\ proc = "running" /\ sigPc = "lnclose"
    /\ IF ln = "nil"
       THEN /\ proc' = "panicked" /\ crash' = "nil pointer dereference"
            /\ UNCHANGED <<ln, sigPc>>
       ELSE /\ ln' = "closed" /\ sigPc' = "logclosed"
            /\ UNCHANGED <<proc, crash>>
    /\ UNCHANGED <<confVars, needVars, mainVars, sigChan, nSignals, closeRuns,
                   isClosed, engineVars, last>>

\* the log line "server closed." and the end of the goroutine
SigLogClosed ==
    /\ proc = "running" /\ sigPc = "logclosed"
    /\ sigPc' = "done"
    /\ UNCHANGED <<confVars, needVars, proc, crash, mainVars, sigChan, nSignals,
                   closeRuns, isClosed, ln, engineVars, last>>

\* -------------------------------------------------------------- the main flow
\* ListenAndServe up to the call of srv.Serve: ln is assigned by net.Listen /
\* tls.Listen, which leaves it nil when binding fails
Listen ==
    /\ proc = "running" /\ mainPc = "listen"
    /\ \E ok \in BOOLEAN :
         IF ok
         THEN /\ ln' = "open" /\ mainPc' = "serve" /\ UNCHANGED serveErr
         ELSE /\ ln' = "nil" /\ serveErr' = "BindErr" /\ mainPc' = "returned"
    /\ UNCHANGED <<confVars, needVars, proc, crash, sigVars, engineVars, branch,
                   shutdownLogged, last>>

\* srv.Serve(ln) on entry: an engine that is shutting down serves nothing
ServeEnter ==
    /\ proc = "running" /\ mainPc = "serve"
    /\ IF inShutdown
       THEN serveErr' = "ErrServerClosed" /\ mainPc' = "returned"
       ELSE mainPc' = "accept" /\ UNCHANGED serveErr
    /\ UNCHANGED <<confVars, needVars, proc, crash, sigVars, ln, engineVars,
                   branch, shutdownLogged, last>>

\* the accept loop blocked in ln.Accept, the listener closed: Accept fails
\* and Serve returns the error
ServeAcceptClosed ==
    /\ proc = "running" /\ mainPc = "accept" /\ ln = "closed"
    /\ serveErr' = "ErrListenerClosed" /\ mainPc' = "returned"
    /\ UNCHANGED <<confVars, needVars, proc, crash, sigVars, ln, engineVars,
                   branch, shutdownLogged, last>>

\* a client connects: Accept returns the connection and a session starts
ServeAcceptConn ==
    /\ proc = "running" /\ mainPc = "accept" /\ ln = "open"
    /\ \E s \in Conns :
         /\ sessions[s] = "none"
         /\ sessions' = [sessions EXCEPT ![s] = "idle"]
    /\ mainPc' = "loop"
    /\ UNCHANGED <<confVars, needVars, proc, crash, sigVars, ln, inShutdown,
                   inflight, hit, serveErr, branch, shutdownLogged, last>>

\* the listener fails on its own: Accept returns an error that is not temporary
ServeAcceptFail ==
    /\ proc = "running" /\ mainPc = "accept" /\ ln = "open"
    /\ serveErr' = "AcceptErr" /\ mainPc' = "returned"
    /\ UNCHANGED <<confVars, needVars, proc, crash, sigVars, ln, engineVars,
                   branch, shutdownLogged, last>>

\* the top of the accept loop: no new connection once the engine is closed
ServeLoop ==
    /\ proc = "running" /\ mainPc = "loop"
    /\ IF inShutdown
       THEN serveErr' = "ErrServerClosed" /\ mainPc' = "returned"
       ELSE mainPc' = "accept" /\ UNCHANGED serveErr
    /\ UNCHANGED <<confVars, needVars, proc, crash, sigVars, ln, engineVars,
                   branch, shutdownLogged, last>>

\* what the unsynchronized read "if isClosed" may yield: the value written, or,
\* when nothing orders the read after the write, still the initial value.  Only
\* the return of Accept from the listener closed by the signal flow orders them.
FlagReads == IF serveErr = "ErrListenerClosed" THEN {isClosed} ELSE {isClosed, FALSE}

\* "err = ListenAndServe(); if isClosed {...} else if err != nil {...}" up to the
\* call of srv.Shutdown; on the else branches main returns and the process ends
MainAfterServe ==
    /\ proc = "running" /\ mainPc = "returned"
    /\ \E v \in FlagReads :
         IF v
         THEN /\ branch' = "shutdown" /\ mainPc' = "shutdown"
              /\ UNCHANGED proc
         ELSE /\ branch' = IF serveErr # "nil" THEN "unexpected" ELSE "silent"
              /\ mainPc' = "done" /\ proc' = "exited"
    /\ UNCHANGED <<confVars, needVars, crash, sigVars, ln, engineVars, serveErr,
                   shutdownLogged, last>>

\* the engine's Shutdown, first part: the engine is shutting down
srvShutdown == inShutdown' = TRUE

\* "err = srv.Shutdown(context.TODO())" is called
MainShutdown ==
    /\ proc = "running" /\ mainPc = "shutdown"
    /\ srvShutdown /\ mainPc' = "draining"
    /\ UNCHANGED <<confVars, needVars, proc, crash, sigVars, ln, sessions,
                   inflight, hit, serveErr, branch, shutdownLogged, last>>

\* Shutdown's bounded wait is over: no session is open, or the bound elapsed
\* (it is far longer than a handler runs, so only idle sessions outlast it)
Drained ==
    \/ \A s \in Conns : sessions[s] = "none"        \* every session has ended
    \/ \A s \in Conns : sessions[s] # "handling"    \* the bound has elapsed

\* srv.Shutdown returns, "server shut downed." is logged, main returns
MainShutdownDone ==
    /\ proc = "running" /\ mainPc = "draining"
    /\ Drained
    /\ shutdownLogged' = TRUE /\ mainPc' = "done" /\ proc' = "exited"
    /\ UNCHANGED <<confVars, needVars, crash, sigVars, ln, engineVars, serveErr,
                   branch, last>>

\* ------------------------------------------------------- sessions and handler
\* the engine has read a whole transaction on connection s and calls srv.Handler
HandlerStart(s) ==
    /\ proc = "running" /\ sessions[s] = "idle" /\ ~inShutdown
    /\ sessions' = [sessions EXCEPT ![s] = "handling"]
    /\ UNCHANGED <<confVars, needVars, proc, crash, mainVars, sigVars, ln,
                   inShutdown, inflight, hit, last>>

\* mailProcessing runs and returns to the engine
HandlerRun(s) ==
    /\ proc = "running" /\ sessions[s] = "handling"
    /\ last' \in {mailProcessing(data, 17, 5, writeOk) :
                      data \in ServeBodies, writeOk \in BOOLEAN}
    /\ IF last'.panic
       THEN /\ proc' = "panicked" /\ crash' = "slice bounds out of range"
            /\ UNCHANGED <<sessions, inflight>>
       ELSE /\ sessions' = [sessions EXCEPT ![s] = "idle"]
            /\ inflight' = inflight \ {s}
            /\ UNCHANGED <<proc, crash>>
    /\ UNCHANGED <<confVars, needVars, mainVars, sigVars, ln, inShutdown, hit>>

\* the client quits or the engine's network timeout ends the session
SessionEnd(s) ==
    /\ proc = "running" /\ sessions[s] = "idle"
    /\ sessions' = [sessions EXCEPT ![s] = "none"]
    /\ UNCHANGED <<confVars, needVars, proc, crash, mainVars, sigVars, ln,
                   inShutdown, inflight, hit, last>>

\* the steps of the main goroutine that wait for nothing outside the process
MainFlow ==
    \/ PreProcess \/ StartSignalFlow \/ Listen \/ ServeEnter \/ ServeAcceptClosed
    \/ ServeLoop \/ MainAfterServe \/ MainShutdown \/ MainShutdownDone

SignalFlow ==
    \/ SigNotify \/ SigReceive \/ SigEngineClose \/ SigSetFlag
    \/ SigListenerClose \/ SigLogClosed

Next ==
    \/ MainFlow
    \/ SignalFlow
    \/ Interrupt
    \/ ServeAcceptConn
    \/ ServeAcceptFail
    \/ \E s \in Conns : HandlerStart(s)
    \/ \E s \in Conns : HandlerRun(s)
    \/ \E s \in Conns : SessionEnd(s)

Spec == Init /\ [][Next]_vars

\* the Go scheduler runs every runnable goroutine: main, the signal goroutine,
\* the handlers; sessions end by the engine's network timeout
InitFair ==
    /\ fileFormat = <<"a", "%", "s">>
    /\ logQuiet = FALSE /\ logFull = FALSE /\ debug = FALSE
    /\ InitProcess

FairSpec ==
    /\ InitFair /\ [][Next]_vars
    /\ WF_vars(MainFlow)
    /\ WF_vars(SignalFlow)
    /\ \A s \in Conns : WF_vars(HandlerRun(s)) /\ WF_vars(SessionEnd(s))

\* --------------------------------------------- the handler over all templates
InitT ==
    /\ fileFormat \in Templates
    /\ logQuiet = FALSE /\ logFull = FALSE /\ debug = FALSE
    /\ InitProcess

\* one transaction handed to mailProcessing after startup
Deliver(bodies, stamps, nanos, writes) ==
    /\ proc = "running" /\ mainPc = "go"
    /\ \E data \in bodies, ts \in stamps, nano \in nanos, writeOk \in writes :
         last' = mailProcessing(data, ts, nano, writeOk)
    /\ UNCHANGED <<confVars, needVars, proc, crash, mainVars, sigVars, ln,
                   engineVars>>

TemplateBodies == {<<"x">>, <<LF, LF, LF, "x">>}

Transaction == Deliver(TemplateBodies, Timestamps, Nanoseconds, {TRUE})

NextT == PreProcess \/ Transaction

SpecT == InitT /\ [][NextT]_vars

\* ------------------------------------------------ the handler over all bodies
DigestTemplates ==
    {<<"%", "h">>, <<"%", "H">>, <<"a", "%", "h", "%", "H">>, <<"a">>}

InitD ==
    /\ fileFormat \in DigestTemplates
    /\ logQuiet = FALSE /\ logFull = FALSE /\ debug = FALSE
    /\ InitProcess

TransactionD == Deliver(Bodies, {17}, {5}, BOOLEAN)

NextD == PreProcess \/ TransactionD

SpecD == InitD /\ [][NextD]_vars

\* ===================================================================== claims
\* ------------------------------------------------- reading a template by hand
TokenLetters == {"s", "N", "h", "H"}

\* the template read left to right: at a "%", "%%" is an escape, "%" and a token
\* letter is a token, any other "%" stands alone
RECURSIVE Marks(_, _)
Marks(f, i) ==
    IF i > Len(f) THEN {}
    ELSE IF f[i] # "%" THEN Marks(f, i + 1)
    ELSE IF i < Len(f) /\ f[i + 1] = "%"
         THEN {[p |-> i, t |-> "escape"]} \cup Marks(f, i + 2)
    ELSE IF i < Len(f) /\ f[i + 1] \in TokenLetters
         THEN {[p |-> i, t |-> "token"]} \cup Marks(f, i + 2)
    ELSE {[p |-> i, t |-> "lone"]} \cup Marks(f, i + 1)

TokenStarts(f) == {m.p : m \in {x \in Marks(f, 1) : x.t = "token"}}
EscapeStarts(f) == {m.p : m \in {x \in Marks(f, 1) : x.t = "escape"}}
LoneAtEnd(f) == [p |-> Len(f), t |-> "lone"] \in Marks(f, 1)

\* what the resolved file name holds in place of the template position p
PartAt(fn, p) ==
    LET At(e) == e.o = p
    IN [i \in 1..Len(SelectSeq(fn, At)) |->
          [c |-> SelectSeq(fn, At)[i].c, k |-> SelectSeq(fn, At)[i].k,
           d |-> SelectSeq(fn, At)[i].d]]

LineFeeds(data) == {i \in 1..Len(data) : data[i] = LF}

\* the bytes after the n-th line feed of data (all of data for n = 0)
AfterLineFeed(data, n) ==
    IF n = 0 THEN data
    ELSE LET i == CHOOSE k \in LineFeeds(data) :
                      Cardinality({m \in LineFeeds(data) : m <= k}) = n
         IN SubSeq(data, i + 1, Len(data))

\* the bytes every %h digest of the last file name was computed over
DigestInputs(fn) == {fn[i].d : i \in {j \in 1..Len(fn) : fn[j].k = "h"}}

\* Serve returned because the engine or the listener was closed, which before
\* main's own Shutdown only the signal flow does
ClosedBySignalFlow == serveErr \in {"ErrServerClosed", "ErrListenerClosed"}

\* ------------------------------------------------------------------------ C1
\* C1: whenever the accept loop returned because the signal flow closed the
\* engine or the listener, main reads isClosed as set and takes the Shutdown
\* branch, never the unexpected-termination branch.
C1_ShutdownBranchAfterClose ==
    (ClosedBySignalFlow /\ branch # "none") => branch = "shutdown"

\* ------------------------------------------------------------------------ C2
\* C2: a handler that was running when an interrupt arrived has completed when
\* the process terminates after the signal flow ended the accept loop, and the
\* process then has logged shutdown completion.
C2_InflightHandlerCompletes ==
    (proc # "running" /\ hit /\ ClosedBySignalFlow)
        => (inflight = {} /\ shutdownLogged)

\* ------------------------------------------------------------------------ C3
\* C3 as stated: the %h digest is computed over the bytes after the third line
\* feed, over the empty payload when the body has fewer than three line feeds,
\* and the body is never indexed out of bounds.
C3_EmptyPayloadBelowThree ==
    (last # NoResult /\ needDataHash) =>
        /\ ~last.panic
        /\ DigestInputs(last.filename) =
             {IF Cardinality(LineFeeds(last.data)) >= 3
              THEN AfterLineFeed(last.data, 3) ELSE <<>>}

\* C3 amended: the %h digest is computed over the bytes after the third line
\* feed, or, when the body has fewer than three line feeds, over the bytes after
\* the last line feed it has (the whole body when it has none); the body is
\* never indexed out of bounds.
C3_PayloadAfterLastOfThree ==
    (last # NoResult /\ needDataHash) =>
        /\ ~last.panic
        /\ last.payload =
             AfterLineFeed(last.data,
                 IF Cardinality(LineFeeds(last.data)) >= 3 THEN 3
                 ELSE Cardinality(LineFeeds(last.data)))
        /\ DigestInputs(last.filename) \subseteq {last.payload}

\* a body with one line feed whose %h digest went into the file name
C3_Witness ==
    /\ last.done /\ needDataHash
    /\ Cardinality(LineFeeds(last.data)) = 1
    /\ last.payload = <<"x">>
    /\ DigestInputs(last.filename) = {<<"x">>}

\* ------------------------------------------------------------------------ C4
\* C4: in the resolved path every unescaped token is replaced by its value, all
\* occurrences of one token by the same value, and no token marker survives.
C4_EveryTokenReplaced ==
    last.done =>
        \A p \in TokenStarts(fileFormat) :
            /\ PartAt(last.filename, p) # <<>>
            /\ \A i \in 1..Len(PartAt(last.filename, p)) :
                   PartAt(last.filename, p)[i].k = fileFormat[p + 1]
            /\ PartAt(last.filename, p + 1) = <<>>
            /\ \A q \in TokenStarts(fileFormat) :
                   fileFormat[q + 1] = fileFormat[p + 1] =>
                       PartAt(last.filename, q) = PartAt(last.filename, p)

\* ------------------------------------------------------------------------ C5
\* C5: for a template ending in a lone "%", the startup pre-processing does not
\* read past the end of the template, and the resolved path ends with that "%".
C5_TrailingPercentIsLiteral ==
    LoneAtEnd(fileFormat) =>
        /\ crash # "index out of range"
        /\ last.done =>
             /\ last.filename # <<>>
             /\ last.filename[Len(last.filename)]
                  = Elem("%", Len(fileFormat), "", <<>>)

\* ------------------------------------------------------------------------ C6
\* C6: where the template has the escape "%%" followed by "s", the resolved path
\* has the literal "%s" and no substituted value; and every substituted value
\* stands where the template itself has a token of that kind.
C6_EscapedSStaysLiteral ==
    last.done =>
        /\ \A p \in EscapeStarts(fileFormat) :
              (p + 2 <= Len(fileFormat) /\ fileFormat[p + 2] = "s") =>
                  /\ \E i \in 1..(Len(last.filename) - 1) :
                        /\ last.filename[i] = Elem("%", p, "", <<>>)
                        /\ last.filename[i + 1] = Elem("s", p + 2, "", <<>>)
                  /\ \A i \in 1..Len(last.filename) :
                        last.filename[i].o \in {p, p + 1, p + 2}
                            => last.filename[i].k = ""
        /\ \A i \in 1..Len(last.filename) :
              last.filename[i].k # "" =>
                  /\ last.filename[i].o \in TokenStarts(fileFormat)
                  /\ fileFormat[last.filename[i].o + 1] = last.filename[i].k

\* an escaped "%%s" beside a "%s" token that was replaced by the timestamp
C6_Witness ==
    /\ last.done
    /\ \E p \in EscapeStarts(fileFormat) :
          p + 2 <= Len(fileFormat) /\ fileFormat[p + 2] = "s"
    /\ \E i \in 1..Len(last.filename) : last.filename[i].k = "s"

\* ------------------------------------------------------------------------ C7
\* C7: every handler invocation returns no error; a failed write is logged, the
\* handler still reports acceptance, and the process goes on serving.
C7_HandlerAlwaysAccepts ==
    [][/\ crash' # "slice bounds out of range"
       /\ \A s \in Conns :
            (sessions[s] = "handling" /\ sessions'[s] # "handling") =>
                /\ last'.done /\ last'.err = "nil"
                /\ (last'.writeTried /\ ~last'.written) => last'.errLogged
                /\ proc' = "running" /\ mainPc' = mainPc
                /\ sessions'[s] = "idle"]_vars

\* a handler has returned after a failed write while the accept loop is waiting
C7_Witness ==
    /\ last.done /\ last.writeTried /\ ~last.written /\ last.errLogged
    /\ last.err = "nil"
    /\ proc = "running" /\ mainPc = "accept"

\* ------------------------------------------------------------------------ C8
\* C8: once an interrupt has arrived while the accept loop is serving, the
\* process eventually terminates, however many interrupts follow; the close
\* sequence is started at most once.
C8_TerminatesAfterInterrupt ==
    /\ (nSignals > 0 /\ mainPc \in {"accept", "loop"}) ~> (proc # "running")
    /\ [](closeRuns <= 1)

\* two interrupts arrived, the accept loop was ended by the listener's close,
\* the close sequence ran once and the process has terminated
C8_Witness ==
    /\ nSignals >= 2 /\ closeRuns = 1 /\ sigPc = "done"
    /\ serveErr = "ErrListenerClosed"
    /\ proc = "exited" /\ shutdownLogged

\* ------------------------------------------------------------------------ C9
\* C9: the signal flow closes the engine, then sets the flag, then closes the
\* listener, and a process that terminates through the shutdown branch, its
\* accept loop ended by the signal flow, does so only after the signal flow has
\* closed the listener.
C9_TerminatedAfterListenerClose ==
    /\ isClosed => closeRuns > 0
    /\ sigPc \in {"logclosed", "done"} => (isClosed /\ ln = "closed")
    /\ (proc = "exited" /\ branch = "shutdown" /\ ClosedBySignalFlow)
          => (sigPc \in {"logclosed", "done"} /\ ln = "closed")

\* ----------------------------------------------------------------------- C10
\* C10: the signal flow never calls Close on a listener handle that main has
\* not assigned.
C10_ListenerAssignedBeforeClose == crash # "nil pointer dereference"

====
